---- MODULE Spec2Model ----
(***************************************************************************)
(* Model of the CounterSession Durable Object of src/src/index.js.         *)
(*                                                                         *)
(* The object is single-threaded JavaScript: a handler runs without        *)
(* interruption up to its next `await`.  The two awaits of the class are   *)
(* storage.get (fetch, line 64) and storage.put (tick callback, line 123); *)
(* while a handler is suspended on one of them, other requests, timer      *)
(* firings and abort events of the same object may run.  A storage         *)
(* operation takes effect at the moment its promise settles and the        *)
(* suspended handler resumes in the same step; puts settle in the order    *)
(* they were issued, and a put may reject instead.                         *)
(***************************************************************************)
EXTENDS Integers, Sequences, FiniteSets, TLC

\* ---- bounds ----
MaxClients == 2     \* connections opened over the whole run
MaxTicks == 2       \* timer firings over the whole run

Clients == 1..MaxClients

\* this.counter === null / this.intervalId === null / storage key absent
NULL == -1

VARIABLES
    counter,     \* this.counter: NULL or a number
    clients,     \* this.clients: set of client handles
    intervalId,  \* this.intervalId: NULL or a timer handle
    timers,      \* host: interval timers that are armed
    storage,     \* durable entry "counter": NULL (absent) or a number
    ticks,       \* tick callbacks suspended on `await put`, oldest first
    fetches,     \* clients of the /events requests suspended on `await get`
    out,         \* per client, the records enqueued to its stream controller
    closed,      \* clients whose controller throws on enqueue (kept for the ones deleted by a throw)
    listeners,   \* clients whose abort listener is registered and has not run
    attachLog,   \* history: what each client saw at the moment it was added
    nextClient,  \* number of connections opened so far
    nFired       \* number of timer firings so far

vars == <<counter, clients, intervalId, timers, storage, ticks, fetches, out,
          closed, listeners, attachLog, nextClient, nFired>>

NoAttach == [size |-> 0, counter |-> NULL, dur |-> NULL, fresh |-> FALSE, fired |-> 0]

\* ---- pure helpers ----

\* `await this.state.storage.get("counter") || 0`
OrZero(v) == IF v = NULL \/ v = 0 THEN 0 ELSE v

\* the chunk `data: ${value}\n\n`; kind and tick tell where it was produced
CatchUpRec(v) == [kind |-> "catchup", val |-> v, tick |-> nFired]
TickRec(v, id) == [kind |-> "tick", val |-> v, tick |-> id]

\* the value a resumed tick callback encodes: this.counter, read after the await
TickData(t) == counter

\* setInterval returns a handle that is not in use
NewTimer == CHOOSE id \in 1..(Cardinality(timers) + 1) : id \notin timers

RemoveAt(s, i) == [j \in 1..(Len(s) - 1) |-> IF j < i THEN s[j] ELSE s[j + 1]]

\* iteration order of a Set: insertion order; handles are numbered as they connect
First(S) == CHOOSE c \in S : \A d \in S : c <= d

\* ---- methods ----

startCounting ==
    IF intervalId # NULL
    THEN UNCHANGED <<intervalId, timers>>
    ELSE /\ intervalId' = NewTimer
         /\ timers' = timers \cup {NewTimer}

stopCountingKeepsId ==
    IF intervalId # NULL
    THEN /\ timers' = timers \ {intervalId}
         /\ intervalId' = intervalId
    ELSE UNCHANGED <<intervalId, timers>>

stopCounting ==
    IF intervalId # NULL
    THEN /\ timers' = timers \ {intervalId}
         /\ intervalId' = NULL
    ELSE UNCHANGED <<intervalId, timers>>

\* fetch, lines 84-104, with this.counter = cnt
Attach(c, cnt, isFresh) ==
    /\ clients' = clients \cup {c}
    /\ IF Cardinality(clients \cup {c}) = 1
       THEN /\ startCounting
            /\ out' = out
       ELSE /\ out' = [out EXCEPT ![c] = Append(@, CatchUpRec(cnt))]
            /\ UNCHANGED <<intervalId, timers>>
    /\ listeners' = listeners \cup {c}
    /\ attachLog' = [attachLog EXCEPT ![c] =
                       [size |-> Cardinality(clients \cup {c}), counter |-> cnt,
                        dur |-> OrZero(storage), fresh |-> isFresh, fired |-> nFired]]

\* the broadcast loop with a throw that ends the loop (try/catch around the loop)
RECURSIVE BroadcastAbortsOnThrow(_, _, _)
BroadcastAbortsOnThrow(todo, st, rec) ==
    IF todo = {} THEN st
    ELSE LET c == First(todo) IN
         IF c \in closed
         THEN [st EXCEPT !.clients = @ \ {c}]
         ELSE BroadcastAbortsOnThrow(todo \ {c}, [st EXCEPT !.out[c] = Append(@, rec)], rec)

\* the broadcast loop with a delete that makes the iteration skip the next client
RECURSIVE BroadcastSkipsAfterDelete(_, _, _)
BroadcastSkipsAfterDelete(todo, st, rec) ==
    IF todo = {} THEN st
    ELSE LET c == First(todo) IN
         IF c \in closed
         THEN BroadcastSkipsAfterDelete(
                  IF todo \ {c} = {} THEN {} ELSE (todo \ {c}) \ {First(todo \ {c})},
                  [st EXCEPT !.clients = @ \ {c}], rec)
         ELSE BroadcastSkipsAfterDelete(todo \ {c}, [st EXCEPT !.out[c] = Append(@, rec)], rec)

\* the broadcast loop with a catch that only logs: the client stays in the set
RECURSIVE BroadcastKeepsOnThrow(_, _, _)
BroadcastKeepsOnThrow(todo, st, rec) ==
    IF todo = {} THEN st
    ELSE LET c == First(todo) IN
         IF c \in closed
         THEN BroadcastKeepsOnThrow(todo \ {c}, st, rec)
         ELSE BroadcastKeepsOnThrow(todo \ {c}, [st EXCEPT !.out[c] = Append(@, rec)], rec)

\* the loop body of lines 128-135 for the clients still to visit: enqueue, or
\* on a throw delete the client; st is [clients, out]
RECURSIVE BroadcastLoop(_, _, _)
BroadcastLoop(todo, st, rec) ==
    IF todo = {} THEN st
    ELSE LET c == First(todo) IN
         IF c \in closed
         THEN BroadcastLoop(todo \ {c}, [st EXCEPT !.clients = @ \ {c}], rec)
         ELSE BroadcastLoop(todo \ {c}, [st EXCEPT !.out[c] = Append(@, rec)], rec)

\* the broadcast over the subscribers the tick saw when it fired
BroadcastToSnapshot(rec) ==
    LET st == BroadcastLoop(Head(ticks).subs, [clients |-> Head(ticks).subs, out |-> out], rec)
    IN [clients |-> clients \cap st.clients, out |-> st.out]

Broadcast(rec) == BroadcastLoop(clients, [clients |-> clients, out |-> out], rec)

\* ---- actions ----

\* GET /events while this.counter is loaded: runs to completion
FetchEvents ==
    /\ counter # NULL
    /\ nextClient < MaxClients
    /\ nextClient' = nextClient + 1
    /\ Attach(nextClient + 1, counter, FALSE)
    /\ UNCHANGED <<counter, storage, ticks, fetches, closed, nFired>>

\* GET /events while this.counter === null: suspends on storage.get
FetchBegin ==
    /\ counter = NULL
    /\ nextClient < MaxClients
    /\ nextClient' = nextClient + 1
    /\ fetches' = fetches \cup {nextClient + 1}
    /\ UNCHANGED <<counter, clients, intervalId, timers, storage, ticks, out,
                   closed, listeners, attachLog, nFired>>

\* the get resolves: the fetch assigns this.counter, then attaches
FetchResume ==
    \E c \in fetches :
        /\ fetches' = fetches \ {c}
        /\ counter' = OrZero(storage)
        /\ Attach(c, OrZero(storage), counter = NULL)
        /\ UNCHANGED <<storage, ticks, closed, nextClient, nFired>>

\* the abort listener without the size check: it stops the loop every time
AbortAlwaysStops ==
    \E c \in listeners :
        /\ listeners' = listeners \ {c}
        /\ clients' = clients \ {c}
        /\ stopCounting
        /\ closed' = IF c \in clients THEN closed \ {c} ELSE closed
        /\ UNCHANGED <<counter, storage, ticks, fetches, out,
                       attachLog, nextClient, nFired>>

\* the request's abort signal fires
Abort ==
    \E c \in listeners :
        /\ listeners' = listeners \ {c}
        /\ clients' = clients \ {c}
        /\ IF clients \ {c} = {} THEN stopCounting ELSE UNCHANGED <<intervalId, timers>>
        /\ closed' = IF c \in clients THEN closed \ {c} ELSE closed
        /\ UNCHANGED <<counter, storage, ticks, fetches, out,
                       attachLog, nextClient, nFired>>

\* a client's stream is closed or errored: enqueue on it throws from now on
CloseChannel ==
    \E c \in clients \ closed :
        /\ closed' = closed \cup {c}
        /\ UNCHANGED <<counter, clients, intervalId, timers, storage, ticks, fetches,
                       out, listeners, attachLog, nextClient, nFired>>

\* the interval timer fires: this.counter++ and the put is issued
TickFire ==
    /\ timers # {}
    /\ nFired < MaxTicks
    /\ nFired' = nFired + 1
    /\ counter' = counter + 1
    /\ ticks' = Append(ticks, [id |-> nFired + 1, val |-> counter + 1, subs |-> clients])
    /\ UNCHANGED <<clients, intervalId, timers, storage, fetches, out, closed,
                   listeners, attachLog, nextClient>>

\* the same firing with room for one more, for the runs that need three ticks
TickFireDeep ==
    /\ timers # {}
    /\ nFired < MaxTicks + 1
    /\ nFired' = nFired + 1
    /\ counter' = counter + 1
    /\ ticks' = Append(ticks, [id |-> nFired + 1, val |-> counter + 1, subs |-> clients])
    /\ UNCHANGED <<clients, intervalId, timers, storage, fetches, out, closed,
                   listeners, attachLog, nextClient>>

\* the oldest put resolves and its callback resumes: encode, broadcast, stop check
TickPutOk ==
    /\ ticks # <<>>
    /\ LET t == Head(ticks)
           after == Broadcast(TickRec(TickData(t), t.id))
       IN /\ storage' = t.val
          /\ out' = after.out
          /\ clients' = after.clients
          /\ closed' = closed
          /\ IF after.clients = {} THEN stopCounting ELSE UNCHANGED <<intervalId, timers>>
    /\ ticks' = Tail(ticks)
    /\ UNCHANGED <<counter, fetches, listeners, attachLog, nextClient, nFired>>

\* a put rejects and the rejection ends the loop: the timer is cleared
TickPutFailStopsLoop ==
    \E i \in DOMAIN ticks :
        /\ ticks' = RemoveAt(ticks, i)
        /\ stopCounting
        /\ UNCHANGED <<counter, clients, storage, fetches, out,
                       closed, listeners, attachLog, nextClient, nFired>>

\* a put rejects: the callback throws at the await and nothing else of it runs
TickPutFail ==
    \E i \in DOMAIN ticks :
        /\ ticks' = RemoveAt(ticks, i)
        /\ UNCHANGED <<counter, clients, intervalId, timers, storage, fetches, out,
                       closed, listeners, attachLog, nextClient, nFired>>

\* the object is evicted or crashes; the next request constructs it anew
Restart ==
    /\ counter # NULL \/ fetches # {}
    /\ counter' = NULL
    /\ clients' = {}
    /\ intervalId' = NULL
    /\ timers' = {}
    /\ ticks' = <<>>
    /\ fetches' = {}
    /\ listeners' = {}
    /\ closed' = {}
    /\ UNCHANGED <<storage, out, attachLog, nextClient, nFired>>

Init ==
    /\ counter = NULL
    /\ clients = {}
    /\ intervalId = NULL
    /\ timers = {}
    /\ storage = NULL
    /\ ticks = <<>>
    /\ fetches = {}
    /\ out = [c \in Clients |-> <<>>]
    /\ closed = {}
    /\ listeners = {}
    /\ attachLog = [c \in Clients |-> NoAttach]
    /\ nextClient = 0
    /\ nFired = 0

Next ==
    \/ FetchEvents
    \/ FetchBegin
    \/ FetchResume
    \/ Abort
    \/ CloseChannel
    \/ TickFire
    \/ TickPutOk
    \/ TickPutFail
    \/ Restart

Spec == Init /\ [][Next]_vars

\* the same object with a store whose puts never reject
NextNoFail ==
    \/ FetchEvents
    \/ FetchBegin
    \/ FetchResume
    \/ Abort
    \/ CloseChannel
    \/ TickFire
    \/ TickPutOk
    \/ Restart

SpecNoFail == Init /\ [][NextNoFail]_vars

\* the object with one more timer firing
NextDeep ==
    \/ FetchEvents
    \/ FetchBegin
    \/ FetchResume
    \/ Abort
    \/ CloseChannel
    \/ TickFireDeep
    \/ TickPutOk
    \/ TickPutFail
    \/ Restart

SpecDeep == Init /\ [][NextDeep]_vars

\* the timer keeps firing and every put resolves
SpecLive == Init /\ [][NextNoFail]_vars /\ WF_vars(TickFire) /\ WF_vars(TickPutOk)

\* ---- properties ----

Last(s) == s[Len(s)]

\* client c is enqueued a record in this step
Enqueued(c) == Len(out'[c]) > Len(out[c])

\* the records of tick id in a stream
OfTick(s, id) == {i \in DOMAIN s : s[i].kind = "tick" /\ s[i].tick = id}

TickPositions(s) == {i \in DOMAIN s : s[i].kind = "tick"}

Attached(c) == attachLog[c].size > 0

\* C1: whenever a subscriber is enqueued a tick record with value v, the
\* durable store holds v at that moment.
PersistenceBeforeBroadcast ==
    [][\A c \in Clients :
          (Enqueued(c) /\ Last(out'[c]).kind = "tick") => storage' = Last(out'[c]).val]_vars

\* C2: whenever an attach enqueues the catch-up record, its value is the value
\* held in the durable store (0 when the entry is absent).
CatchUpMatchesDurable ==
    [][\A c \in Clients :
          (Enqueued(c) /\ Last(out'[c]).kind = "catchup")
              => Last(out'[c]).val = OrZero(storage')]_vars

\* C3: the values of the tick records enqueued to one subscriber are strictly
\* increasing.
Monotonicity ==
    \A c \in Clients : \A i, j \in TickPositions(out[c]) :
        i < j => out[c][i].val < out[c][j].val

\* C4 as stated: when any tick ends, whether its put resolved or rejected, each
\* subscriber that was in the set when it fired and is in it afterwards holds
\* exactly one record of that tick.
ExactlyOncePerTick ==
    [][\A i \in DOMAIN ticks :
          ((i = 1 /\ TickPutOk) \/ (ticks' = RemoveAt(ticks, i) /\ TickPutFail))
              => \A c \in ticks[i].subs \cap clients' :
                     Cardinality(OfTick(out'[c], ticks[i].id)) = 1]_vars

\* C4 amended: when a tick whose put resolved ends, each subscriber that was in
\* the set when it fired and is in it afterwards holds exactly one record of
\* that tick.
ExactlyOncePerWrittenTick ==
    [][TickPutOk =>
          \A c \in Head(ticks).subs \cap clients' :
              Cardinality(OfTick(out'[c], Head(ticks).id)) = 1]_vars

\* a subscriber attached before a tick fired, received it, and is still attached
ExactlyOnceWitness ==
    \E c \in clients : \E i \in TickPositions(out[c]) :
        out[c][i].tick > attachLog[c].fired

\* C5: the timer is set if and only if the subscriber set is non-empty.
IdleRunningEquivalence == (intervalId # NULL) <=> (clients # {})

\* the loop went back to Idle after a subscriber had received a tick
IdleRunningWitness ==
    /\ counter # NULL
    /\ clients = {}
    /\ intervalId = NULL
    /\ \E c \in Clients : Attached(c) /\ TickPositions(out[c]) # {}

\* C6: a subscriber that joins a non-empty set with counter N holds one
\* catch-up record N at the head of its stream, and every record after it is
\* of a tick that fired after the attach.
CatchUpDeterminism ==
    \A c \in Clients :
        attachLog[c].size > 1 =>
            /\ Len(out[c]) >= 1
            /\ out[c][1].kind = "catchup"
            /\ out[c][1].val = attachLog[c].counter
            /\ \A i \in 2..Len(out[c]) :
                   /\ out[c][i].kind = "tick"
                   /\ out[c][i].tick > attachLog[c].fired

\* C7: a subscriber that was alone in the set after its attach holds no
\* catch-up record, and its first record is of a tick fired after the attach
\* and carries the counter at attach plus one.
FirstSubscriberNextTick ==
    \A c \in Clients :
        attachLog[c].size = 1 =>
            /\ \A i \in DOMAIN out[c] : out[c][i].kind = "tick"
            /\ Len(out[c]) >= 1 =>
                   /\ out[c][1].tick > attachLog[c].fired
                   /\ out[c][1].val = attachLog[c].counter + 1

\* C8: the attach that loads the counter of an activation loads the durable
\* value N (0 when absent) and leaves the loop running, and the first record
\* broadcast to it is N + 1.
ResumptionAcrossRestart ==
    /\ [][\A c \in fetches :
             (counter = NULL /\ c \in clients')
                 => counter' = OrZero(storage) /\ intervalId' # NULL]_vars
    /\ [](\A c \in Clients :
             (attachLog[c].fresh /\ Len(out[c]) >= 1)
                 => out[c][1].val = attachLog[c].dur + 1)

\* C9: in a broadcast exactly the clients whose enqueue throws leave the set,
\* every other client of the set is enqueued that tick's record, and the timer
\* stays set while a client remains.
DeliveryFailureIsolation ==
    [][TickPutOk =>
          /\ clients \ clients' = clients \cap closed
          /\ \A c \in clients \ closed :
                 /\ Len(out'[c]) = Len(out[c]) + 1
                 /\ Last(out'[c]).kind = "tick"
                 /\ Last(out'[c]).tick = Head(ticks).id
          /\ clients' # {} => (intervalId' # NULL /\ intervalId' = intervalId
                               /\ timers' = timers)]_vars

\* the only tick so far removed one client and delivered to another
DeliveryFailureWitness ==
    /\ nFired = 1
    /\ intervalId # NULL
    /\ \E c1 \in listeners \ clients : \E c2 \in clients :
           /\ Attached(c1)
           /\ Len(out[c2]) >= 1
           /\ Last(out[c2]).kind = "tick"

\* C10: while the activation is Idle after its subscribers left, and until a
\* subscriber attaches, neither the durable nor the in-memory counter changes.
IdleNoWrites ==
    [][(/\ counter # NULL /\ clients = {} /\ intervalId = NULL
        /\ counter' # NULL /\ clients' = {})
           => (storage' = storage /\ counter' = counter)]_vars

\* C11: no tick fires while an earlier tick is suspended between its increment
\* and its broadcast.
TicksNeverOverlap == [][TickFire => ticks = <<>>]_vars

\* C12: a tick whose put rejects enqueues nothing and leaves the subscriber
\* set, the counters and the timer as they are; a timer firing increments the
\* counter and issues a put of the new value.
PutFailureSkipsTick ==
    /\ [][TickPutFail =>
             /\ out' = out
             /\ clients' = clients
             /\ intervalId' = intervalId /\ timers' = timers
             /\ counter' = counter /\ storage' = storage]_vars
    /\ [][TickFire =>
             /\ counter' = counter + 1
             /\ Last(ticks').val = counter + 1]_vars

\* the put of the only tick was rejected; the subscriber and the timer are still there
PutFailureWitness ==
    /\ nFired = 1 /\ counter = 1
    /\ ticks = <<>> /\ storage = NULL
    /\ clients # {} /\ intervalId # NULL
    /\ \A c \in Clients : out[c] = <<>>

\* C13: the abort of a subscriber that is no longer in the set leaves the set,
\* the counter and the timer as they are.
DetachIdempotent ==
    [][\A c \in listeners \ clients :
          (Abort /\ listeners' = listeners \ {c})
              => /\ clients' = clients
                 /\ counter' = counter
                 /\ intervalId' = intervalId /\ timers' = timers]_vars

\* a subscriber deleted by a failed delivery has aborted since, and the loop
\* still runs for another subscriber
DetachIdempotentWitness ==
    /\ counter # NULL
    /\ clients # {} /\ intervalId # NULL
    /\ \E c \in closed \ clients : Attached(c) /\ c \notin listeners

\* C14: once the in-memory counter is set, no suspended /events request of the
\* activation resumes from a storage read.
LoadedOncePerActivation ==
    [][(counter # NULL /\ counter' # NULL) => fetches' = fetches]_vars

\* C15: the durable counter never decreases.
DurableMonotone == [][storage' >= storage]_vars

\* C16: with the timer firing and every put resolving, once every subscriber of
\* a non-empty set has a channel on which enqueue fails (an abort removes its
\* subscriber at once), the set becomes empty and the timer is cleared, unless a
\* subscriber with a working channel joins first; the premise holds while the
\* run still has a firing or a suspended tick left.  And the timer is set
\* whenever a subscriber is in the set.
IdleTransitionLiveness ==
    /\ ((clients # {} /\ clients \subseteq closed
            /\ (nFired < MaxTicks \/ ticks # <<>>))
          ~> ((clients = {} /\ intervalId = NULL) \/ ~(clients \subseteq closed)))
    /\ [](clients # {} => intervalId # NULL)

\* every subscriber of the activation was deleted by a failed delivery and the
\* loop is Idle
IdleTransitionWitness ==
    /\ counter # NULL
    /\ clients = {} /\ intervalId = NULL
    /\ \E c \in closed : Attached(c) /\ c \in listeners

\* C17: the attach of a subscriber to a non-empty set leaves the in-memory
\* counter, the durable counter, the timer and every other stream as they are.
LateAttachFrame ==
    [][\A c \in Clients :
          (c \notin clients /\ c \in clients' /\ clients # {})
              => /\ counter' = counter
                 /\ storage' = storage
                 /\ intervalId' = intervalId /\ timers' = timers
                 /\ \A d \in Clients \ {c} : out'[d] = out[d]]_vars

\* C18: once the counter is loaded, the durable counter is at most the
\* in-memory counter.
DurableAtMostMemory == counter # NULL => OrZero(storage) <= counter

\* C19: no record is enqueued to a subscriber that has left the set.
NoDeliveryAfterRemoval ==
    [][\A c \in Clients :
          (Attached(c) /\ c \notin clients) => out'[c] = out[c]]_vars

\* the only subscriber aborted while the only tick was suspended on its put;
\* the put resolved afterwards and nothing was enqueued
NoDeliveryWitness ==
    /\ nextClient = 1 /\ Attached(1)
    /\ nFired = 1 /\ ticks = <<>> /\ storage = 1
    /\ clients = {} /\ listeners = {} /\ closed = {}
    /\ out[1] = <<>>

\* C20: with no put rejected, two consecutive tick records of a stream differ
\* by exactly one, and the value a tick broadcasts is the value it put.
TickAdvancesByOne ==
    /\ [](\A c \in Clients : \A i \in DOMAIN out[c] :
             (i > 1 /\ out[c][i].kind = "tick" /\ out[c][i - 1].kind = "tick")
                 => out[c][i].val = out[c][i - 1].val + 1)
    /\ [][TickPutOk =>
             \A c \in Clients : Enqueued(c) => Last(out'[c]).val = Head(ticks).val]_vars

TypeOK ==
    /\ counter \in {NULL} \cup Nat
    /\ clients \subseteq Clients
    /\ closed \subseteq Clients
    /\ intervalId \in {NULL} \cup (1..2)
    /\ timers \subseteq 1..2
    /\ storage \in {NULL} \cup Nat
    /\ nFired \in 0..(MaxTicks + 1)
    /\ nextClient \in 0..MaxClients
====
